---- MODULE Spec2Model ----
(***************************************************************************)
(* Model of script/contracts_downloader.py: ContractsDownloadManager.       *)
(* A shard process runs download(): it loads the failure ledger             *)
(* (not_valid.json), plans its line range, walks the address list, fetches  *)
(* each selected address through the retrying download_contract, writes the *)
(* artifact file, records terminal failures in the ledger, extracts the     *)
(* .sol files and advances the progress bar.                                *)
(*                                                                          *)
(* Line l of the address list holds the key l (keys are unique in the       *)
(* list).  The shard plan (shard, skip) is the same for every invocation of *)
(* one behaviour; each invocation picks its own index.                      *)
(***************************************************************************)
EXTENDS Integers, Sequences, FiniteSets, TLC

\* ---------------------------------------------------------------- bounds
MaxKeys == 2        \* lines of the address list: 0..MaxKeys
MaxShard == 2       \* --shard: 1..MaxShard
MaxSkip == 1        \* --skip: 0..MaxSkip
MaxRuns == 2        \* invocations of download() in one behaviour
MaxLedger0 == 1     \* keys in the ledger file before the first invocation
\* the wider inputs of the shard planner taken alone (SpecPlan)
MaxPlanKeys == 7    \* lines of the address list: 0..MaxPlanKeys
MaxPlanShard == 4   \* --shard: 1..MaxPlanShard, at least MaxShard
MaxPlanSkip == 3    \* --skip: 0..MaxPlanSkip

Procs == {1, 2}     \* process slots (operating-system processes)
SeqProcs == {1}     \* the slot used when invocations do not overlap

Indexes == 0..(MaxPlanShard - 1)

\* ------------------------------------------------- the external fetch API
\* etherscan.client exceptions (line 11) and any other exception
Errors == {"EmptyResponse", "BadRequest", "ConnectionRefused", "Other"}
\* classes of data[0]['SourceCode'] by what lines 53-62 and 107-126 do with it:
\*   empty     ""  (falsy; json.loads raises JSONDecodeError, caught)
\*   source    a non-empty string on which extract_sol_files returns: plain
\*             source text (JSONDecodeError), a '{{ ... }}' bundle with
\*             "sources", a JSON object without "sources" (KeyError)
\*   nonobject a non-empty string that parses as JSON but not as an object of
\*             files (TypeError, which extract_sol_files does not catch)
Contents == {"empty", "source", "nonobject"}
NoFile == "none"
NoErr == "none"
\* what an invocation has done with a line
Pending == "pending"
\* the fetch of the key ends in an exception that download_contract re-raises
Fail == "fail"

VARIABLES
    address_count,  \* number of lines of the address list (count_file_lines)
    shard,          \* self.shard
    skip,           \* self.skip
    ledgerFile,     \* not_valid.json: [st, keys]
    ledger0,        \* keys of the ledger file before the first invocation
    files,          \* output_dir/<key>.json: content class or NoFile
    pc,             \* position of each process in download()
    index,          \* self.index
    not_valid,      \* self.not_valid
    start,          \* start, end, batch of download()
    end,
    batch,
    i,              \* line number of the enumerate() loop
    empty,          \* meta["empty"]
    pbar,           \* pbar.n
    tries,          \* calls of the external fetch for the current key
    lastErr,        \* exception raised by the last call for the current key
    data,           \* content returned by download_contract
    wait,           \* seconds of the last backoff sleep for the current key
    entry,          \* history: keys of the ledger file when it was loaded
    outcome,        \* history: line -> what this invocation did with it
    fate,           \* key -> final result of its fetch, where it is fixed
    files0,         \* the artifact files before the first invocation
    selected,       \* history: line -> indexes whose range check it passed
    started,        \* history: index -> invocations started
    completed,      \* history: index -> invocations that reached the end
    recorded,       \* history: keys whose failure has been persisted
    progressTotal   \* history: pbar.update(1) calls over all invocations

vars == <<address_count, shard, skip, ledgerFile, ledger0, files, pc, index,
          not_valid, start, end, batch, i, empty, pbar, tries, lastErr, data,
          wait, entry, outcome, fate, files0,
          selected, started, completed, recorded, progressTotal>>

procVars == <<index, not_valid, start, end, batch, i, empty, pbar, tries,
              lastErr, data, wait, entry, outcome>>

envVars == <<fate, files0>>

\* ---------------------------------------------------------------- helpers
Range(s) == {s[n] : n \in DOMAIN s}

RECURSIVE SumTo(_, _)
SumTo(f, n) == IF n < 0 THEN 0 ELSE f[n] + SumTo(f, n - 1)

\* line[0] of line l of the address list
KeyAt(l) == l

Absent == [st |-> "absent", keys |-> <<>>]
\* an empty or otherwise unparsable not_valid.json
Corrupt == [st |-> "corrupt", keys |-> <<>>]
Valid(s) == [st |-> "valid", keys |-> s]
\* a not_valid.json that holds the JSON text {}: well-formed, not an array
Object == [st |-> "object", keys |-> <<>>]

Injective(s) == \A a, b \in DOMAIN s : a # b => s[a] # s[b]

InitLedgers(n) ==
    {s \in UNION {[1..m -> 1..n] : m \in 0..MaxLedger0} : Injective(s)}

Stopped == {"idle", "done", "aborted", "killed"}

\* ------------------------------------------------------ pure code operators
\* load_not_valid_addresses: [] when the file is absent, else json.load, which
\* raises on an unparsable file
LoadRaises(f) == f.st = "corrupt"

load_not_valid_addresses_fresh(f) == <<>>

load_not_valid_addresses(f) == IF f.st = "absent" THEN <<>> ELSE f.keys

\* self.not_valid.append on the dict that json.load made of {}: no process
\* writes the file once a dict was loaded, so the file tells what was loaded
AppendRaises(f) == f.st = "object"

\* math.floor(a / b), b # 0: the floor for a divisor of either sign
FloorDiv(a, b) == IF b > 0 THEN a \div b ELSE (0 - a) \div (0 - b)

\* address_count / self.shard raises ZeroDivisionError
PlanRaises(sh) == sh = 0

\* calculate_shard_parameters(address_count) with self.shard, self.index,
\* self.skip
calculate_shard_parameters_noext(n, sh, idx, sk) ==
    LET b == FloorDiv(n, sh)
        s == sk + (idx * b)
    IN  [start |-> s, end |-> s + b, batch |-> b]

calculate_shard_parameters(n, sh, idx, sk) ==
    LET b == FloorDiv(n, sh)
        s == sk + (idx * b)
        e == IF (idx + 1) = sh THEN n ELSE s + b
    IN  [start |-> s, end |-> e, batch |-> b]

\* the negation of `if i < start or i > end: continue`
InRange(l, s, e) == ~(l < s \/ l > e)

\* @backoff.on_exception(backoff.expo, (EmptyResponse, BadRequest,
\* ConnectionRefused), max_tries=8)
max_tries == 8

Retryable_spec(e) == e \in {"EmptyResponse", "ConnectionRefused"}

Retryable(e) == e \in {"EmptyResponse", "BadRequest", "ConnectionRefused"}

\* backoff re-raises when the exception is not listed or the tries are used up
GiveUp_late(n, e) == ~Retryable(e) \/ n > max_tries

GiveUp(n, e) == ~Retryable(e) \/ n >= max_tries

\* backoff.expo: the value for the k-th sleep is 2^(k-1) seconds
ExpoValue(k) == 2 ^ (k - 1)

\* on_exception's default jitter, backoff.full_jitter: the sleep is
\* random.uniform(0, value); the two ends of the interval stand for it
Jitter(v) == {0, v}

\* the outcome recorded for a line: a second outcome for one line is kept apart
Mark(old, new) == IF old = Pending THEN new ELSE "both"

\* `if not data[0]['SourceCode']: meta["empty"] += 1`
EmptyIncrement_inverted(c) == IF c # "empty" THEN 1 ELSE 0

EmptyIncrement(c) == IF c = "empty" THEN 1 ELSE 0

\* json.dump(self.not_valid, fd) into the freshly opened not_valid.json
DumpLedger_stale(nv) == Valid(SubSeq(nv, 1, Len(nv) - 1))

DumpLedger(nv) == Valid(nv)

\* the write of the dump at offset 0 of the file this process truncated when
\* it opened it: text that another process wrote since then is written over
\* from its start, and what is left is the new text or not parseable
WriteOver(f, new) == IF f.st = "valid" THEN {new, Corrupt} ELSE {new}

\* extract_sol_files: open() raises FileNotFoundError when the artifact file
\* does not exist and the bundle walk raises TypeError on JSON that is not an
\* object of files; only json.JSONDecodeError and KeyError are caught
ExtractRaises(f) == f \in {NoFile, "nonobject"}

\* ------------------------------------------------------------------- Init
InitStores(counts, shards, skips, others, olds) ==
    /\ address_count \in counts
    /\ shard \in shards
    /\ skip \in skips
    /\ ledgerFile \in others \cup {Valid(s) : s \in InitLedgers(address_count)}
    /\ ledger0 = Range(ledgerFile.keys)
    /\ files \in [1..address_count -> olds]
    /\ pc = [p \in Procs |-> "idle"]
    /\ index = [p \in Procs |-> 0]
    /\ not_valid = [p \in Procs |-> <<>>]
    /\ start = [p \in Procs |-> 0]
    /\ end = [p \in Procs |-> 0]
    /\ batch = [p \in Procs |-> 0]
    /\ i = [p \in Procs |-> 0]
    /\ empty = [p \in Procs |-> 0]
    /\ pbar = [p \in Procs |-> 0]
    /\ tries = [p \in Procs |-> 0]
    /\ lastErr = [p \in Procs |-> NoErr]
    /\ data = [p \in Procs |-> NoFile]
    /\ wait = [p \in Procs |-> 0]
    /\ entry = [p \in Procs |-> {}]
    /\ outcome = [p \in Procs |-> [l \in 1..address_count |-> Pending]]
    /\ files0 = files
    /\ selected = [l \in 1..address_count |-> {}]
    /\ started = [x \in Indexes |-> 0]
    /\ completed = [x \in Indexes |-> 0]
    /\ recorded = ledger0
    /\ progressTotal = 0

\* an output directory without artifact files
InitLedger(counts, shards, skips, others) ==
    InitStores(counts, shards, skips, others, {NoFile})

InitWith(counts, shards, skips) ==
    InitLedger(counts, shards, skips, {Absent, Corrupt})

\* the fetch is not fixed beforehand: fate is not read
Init ==
    /\ InitWith(0..MaxKeys, 1..MaxShard, 0..MaxSkip)
    /\ fate = [k \in 1..address_count |-> "source"]

\* the inputs of the shard planner alone, on an absent ledger
InitPlan ==
    /\ InitWith(0..MaxPlanKeys, 1..MaxPlanShard, 0..MaxPlanSkip)
    /\ ledgerFile = Absent
    /\ fate = [k \in 1..address_count |-> "source"]

\* ---------------------------------------------------------------- actions
\* __init__ and the call of download() of a new process
StartRun(p) ==
    /\ pc[p] \in Stopped
    /\ SumTo(started, MaxPlanShard - 1) < MaxRuns
    /\ \E idx \in 0..(shard - 1) :
        /\ index' = [index EXCEPT ![p] = idx]
        /\ started' = [started EXCEPT ![idx] = @ + 1]
    /\ pc' = [pc EXCEPT ![p] = "load"]
    /\ not_valid' = [not_valid EXCEPT ![p] = <<>>]
    /\ start' = [start EXCEPT ![p] = 0]
    /\ end' = [end EXCEPT ![p] = 0]
    /\ batch' = [batch EXCEPT ![p] = 0]
    /\ i' = [i EXCEPT ![p] = 0]
    /\ empty' = [empty EXCEPT ![p] = 0]
    /\ pbar' = [pbar EXCEPT ![p] = 0]
    /\ tries' = [tries EXCEPT ![p] = 0]
    /\ lastErr' = [lastErr EXCEPT ![p] = NoErr]
    /\ data' = [data EXCEPT ![p] = NoFile]
    /\ UNCHANGED <<address_count, shard, skip, ledgerFile, ledger0, files,
                   selected, completed, recorded, progressTotal>>
    /\ wait' = [wait EXCEPT ![p] = 0]
    /\ entry' = [entry EXCEPT ![p] = {}]
    /\ outcome' = [outcome EXCEPT ![p] = [l \in 1..address_count |-> Pending]]
    /\ UNCHANGED envVars

\* __init__ and the call of download() with any --index: nothing checks the
\* arguments (lines 17-26, 150-155)
StartUnchecked(p) ==
    /\ pc[p] = "idle"
    /\ \E idx \in (0 - 1)..MaxShard : index' = [index EXCEPT ![p] = idx]
    /\ UNCHANGED started
    /\ pc' = [pc EXCEPT ![p] = "load"]
    /\ not_valid' = [not_valid EXCEPT ![p] = <<>>]
    /\ start' = [start EXCEPT ![p] = 0]
    /\ end' = [end EXCEPT ![p] = 0]
    /\ batch' = [batch EXCEPT ![p] = 0]
    /\ i' = [i EXCEPT ![p] = 0]
    /\ empty' = [empty EXCEPT ![p] = 0]
    /\ pbar' = [pbar EXCEPT ![p] = 0]
    /\ tries' = [tries EXCEPT ![p] = 0]
    /\ lastErr' = [lastErr EXCEPT ![p] = NoErr]
    /\ data' = [data EXCEPT ![p] = NoFile]
    /\ UNCHANGED <<address_count, shard, skip, ledgerFile, ledger0, files,
                   selected, completed, recorded, progressTotal>>
    /\ wait' = [wait EXCEPT ![p] = 0]
    /\ entry' = [entry EXCEPT ![p] = {}]
    /\ outcome' = [outcome EXCEPT ![p] = [l \in 1..address_count |-> Pending]]
    /\ UNCHANGED envVars

\* download(), line 72, on an unparsable ledger: json.load raises
LoadFails(p) ==
    /\ pc[p] = "load"
    /\ LoadRaises(ledgerFile)
    /\ pc' = [pc EXCEPT ![p] = "aborted"]
    /\ UNCHANGED <<address_count, shard, skip, ledgerFile, ledger0, files,
                   procVars, selected, started, completed, recorded,
                   progressTotal>>
    /\ UNCHANGED envVars

\* download(), lines 72-77, with --shard 0: the ledger is loaded, the output
\* directory made, and calculate_shard_parameters raises ZeroDivisionError
PlanFails(p) ==
    /\ pc[p] = "load"
    /\ ~LoadRaises(ledgerFile)
    /\ PlanRaises(shard)
    /\ not_valid' = [not_valid EXCEPT ![p] = load_not_valid_addresses(ledgerFile)]
    /\ entry' = [entry EXCEPT ![p] = Range(ledgerFile.keys)]
    /\ pc' = [pc EXCEPT ![p] = "aborted"]
    /\ UNCHANGED <<address_count, shard, skip, ledgerFile, ledger0, files,
                   index, start, end, batch, i, empty, pbar, tries, lastErr,
                   data, wait, outcome, envVars, selected, started, completed,
                   recorded, progressTotal>>

\* download(), lines 72-83: load the ledger, plan the shard, open the bar
LoadAndPlan(p) ==
    /\ pc[p] = "load"
    /\ ~LoadRaises(ledgerFile)
    /\ ~PlanRaises(shard)
    /\ LET plan == calculate_shard_parameters(address_count, shard, index[p], skip)
       IN  /\ start' = [start EXCEPT ![p] = plan.start]
           /\ end' = [end EXCEPT ![p] = plan.end]
           /\ batch' = [batch EXCEPT ![p] = plan.batch]
    /\ not_valid' = [not_valid EXCEPT ![p] = load_not_valid_addresses(ledgerFile)]
    /\ pbar' = [pbar EXCEPT ![p] = skip]
    /\ empty' = [empty EXCEPT ![p] = 0]
    /\ i' = [i EXCEPT ![p] = 1]
    /\ pc' = [pc EXCEPT ![p] = "loop"]
    /\ UNCHANGED <<address_count, shard, skip, ledgerFile, ledger0, files,
                   index, tries, lastErr, data, selected, started, completed,
                   recorded, progressTotal>>
    /\ entry' = [entry EXCEPT ![p] = Range(ledgerFile.keys)]
    /\ UNCHANGED <<wait, outcome, envVars>>

\* lines 84-87: a line outside the range is passed over
OutOfRange(p) ==
    /\ pc[p] = "loop"
    /\ i[p] <= address_count
    /\ ~InRange(i[p], start[p], end[p])
    /\ i' = [i EXCEPT ![p] = @ + 1]
    /\ UNCHANGED <<address_count, shard, skip, ledgerFile, ledger0, files, pc,
                   index, not_valid, start, end, batch, empty, pbar, tries,
                   lastErr, data, selected, started, completed, recorded,
                   progressTotal>>
    /\ UNCHANGED <<wait, entry, outcome, envVars>>

\* lines 88-90: a line in range whose key is in self.not_valid is passed over
SkipKnown(p) ==
    /\ pc[p] = "loop"
    /\ i[p] <= address_count
    /\ InRange(i[p], start[p], end[p])
    /\ KeyAt(i[p]) \in Range(not_valid[p])
    /\ selected' = [selected EXCEPT ![i[p]] = @ \cup {index[p]}]
    /\ i' = [i EXCEPT ![p] = @ + 1]
    /\ UNCHANGED <<address_count, shard, skip, ledgerFile, ledger0, files, pc,
                   index, not_valid, start, end, batch, empty, pbar, tries,
                   lastErr, data, started, completed, recorded, progressTotal>>
    /\ outcome' = [outcome EXCEPT ![p][i[p]] = Mark(@, "skipped")]
    /\ UNCHANGED <<wait, entry, envVars>>

\* lines 88-93: a line in range whose key is not in self.not_valid is handed
\* to handle_file_download
BeginKey(p) ==
    /\ pc[p] = "loop"
    /\ i[p] <= address_count
    /\ InRange(i[p], start[p], end[p])
    /\ KeyAt(i[p]) \notin Range(not_valid[p])
    /\ selected' = [selected EXCEPT ![i[p]] = @ \cup {index[p]}]
    /\ tries' = [tries EXCEPT ![p] = 0]
    /\ lastErr' = [lastErr EXCEPT ![p] = NoErr]
    /\ data' = [data EXCEPT ![p] = NoFile]
    /\ pc' = [pc EXCEPT ![p] = "fetch"]
    /\ UNCHANGED <<address_count, shard, skip, ledgerFile, ledger0, files,
                   index, not_valid, start, end, batch, i, empty, pbar,
                   started, completed, recorded, progressTotal>>
    /\ wait' = [wait EXCEPT ![p] = 0]
    /\ UNCHANGED <<entry, outcome, envVars>>

\* download_contract: a call of api.get_sourcecode() that returns
FetchReturns(p) ==
    /\ pc[p] = "fetch"
    /\ tries' = [tries EXCEPT ![p] = @ + 1]
    /\ \E c \in Contents : data' = [data EXCEPT ![p] = c]
    /\ pc' = [pc EXCEPT ![p] = "got"]
    /\ UNCHANGED <<address_count, shard, skip, ledgerFile, ledger0, files,
                   index, not_valid, start, end, batch, i, empty, pbar,
                   lastErr, selected, started, completed, recorded,
                   progressTotal>>
    /\ wait' = [wait EXCEPT ![p] = 0]
    /\ UNCHANGED <<entry, outcome, envVars>>

\* download_contract: a call that raises and is retried after the backoff sleep
FetchRetries(p) ==
    /\ pc[p] = "fetch"
    /\ \E e \in Errors :
        /\ ~GiveUp(tries[p] + 1, e)
        /\ lastErr' = [lastErr EXCEPT ![p] = e]
    /\ tries' = [tries EXCEPT ![p] = @ + 1]
    /\ UNCHANGED <<address_count, shard, skip, ledgerFile, ledger0, files, pc,
                   index, not_valid, start, end, batch, i, empty, pbar, data,
                   selected, started, completed, recorded, progressTotal>>
    /\ \E w \in Jitter(ExpoValue(tries[p] + 1)) : wait' = [wait EXCEPT ![p] = w]
    /\ UNCHANGED <<entry, outcome, envVars>>

\* download_contract: a call that raises and whose exception is re-raised
FetchGivesUp(p) ==
    /\ pc[p] = "fetch"
    /\ \E e \in Errors :
        /\ GiveUp(tries[p] + 1, e)
        /\ lastErr' = [lastErr EXCEPT ![p] = e]
    /\ tries' = [tries EXCEPT ![p] = @ + 1]
    /\ pc' = [pc EXCEPT ![p] = "except"]
    /\ UNCHANGED <<address_count, shard, skip, ledgerFile, ledger0, files,
                   index, not_valid, start, end, batch, i, empty, pbar, data,
                   selected, started, completed, recorded, progressTotal>>
    /\ wait' = [wait EXCEPT ![p] = 0]
    /\ UNCHANGED <<entry, outcome, envVars>>

\* handle_file_download, lines 53-62 and 69: count an empty source, write the
\* artifact file
HandleData(p) ==
    /\ pc[p] = "got"
    /\ empty' = [empty EXCEPT ![p] = @ + EmptyIncrement(data[p])]
    /\ files' = [files EXCEPT ![KeyAt(i[p])] = data[p]]
    /\ pc' = [pc EXCEPT ![p] = "extract"]
    /\ UNCHANGED <<address_count, shard, skip, ledgerFile, ledger0, index,
                   not_valid, start, end, batch, i, pbar, tries, lastErr, data,
                   selected, started, completed, recorded, progressTotal>>
    /\ outcome' = [outcome EXCEPT ![p][i[p]] = Mark(@, "written")]
    /\ UNCHANGED <<wait, entry, envVars>>

\* handle_file_download, lines 63-65: append the key, open not_valid.json for
\* writing (which empties it)
ExceptOpen(p) ==
    /\ pc[p] = "except"
    /\ ~AppendRaises(ledgerFile)
    /\ not_valid' = [not_valid EXCEPT ![p] = Append(@, KeyAt(i[p]))]
    /\ ledgerFile' = Corrupt
    /\ pc' = [pc EXCEPT ![p] = "except_dump"]
    /\ UNCHANGED <<address_count, shard, skip, ledger0, files, index, start,
                   end, batch, i, empty, pbar, tries, lastErr, data, selected,
                   started, completed, recorded, progressTotal>>
    /\ outcome' = [outcome EXCEPT ![p][i[p]] = Mark(@, "failed")]
    /\ UNCHANGED <<wait, entry, envVars>>

\* handle_file_download, line 66, after {} was loaded: append raises in the
\* except clause, the finally clause runs and the error leaves download()
AppendFails(p) ==
    /\ pc[p] = "except"
    /\ AppendRaises(ledgerFile)
    /\ pc' = [pc EXCEPT ![p] = "aborted"]
    /\ UNCHANGED <<address_count, shard, skip, ledgerFile, ledger0, files,
                   procVars, envVars, selected, started, completed, recorded,
                   progressTotal>>

\* handle_file_download, lines 66-69: dump the list and close the file
ExceptDump(p) ==
    /\ pc[p] = "except_dump"
    /\ ledgerFile' \in WriteOver(ledgerFile, DumpLedger(not_valid[p]))
    /\ recorded' = recorded \cup {KeyAt(i[p])}
    /\ pc' = [pc EXCEPT ![p] = "extract"]
    /\ UNCHANGED <<address_count, shard, skip, ledger0, files, procVars,
                   selected, started, completed, progressTotal>>
    /\ UNCHANGED envVars

\* line 94: extract_sol_files raises and download() ends with the exception
ExtractFails(p) ==
    /\ pc[p] = "extract"
    /\ ExtractRaises(files[KeyAt(i[p])])
    /\ pc' = [pc EXCEPT ![p] = "aborted"]
    /\ UNCHANGED <<address_count, shard, skip, ledgerFile, ledger0, files,
                   procVars, selected, started, completed, recorded,
                   progressTotal>>
    /\ UNCHANGED envVars

\* lines 94-95: extract_sol_files returns, pbar.update(1), next line
ExtractAndUpdate(p) ==
    /\ pc[p] = "extract"
    /\ ~ExtractRaises(files[KeyAt(i[p])])
    /\ pbar' = [pbar EXCEPT ![p] = @ + 1]
    /\ progressTotal' = progressTotal + 1
    /\ i' = [i EXCEPT ![p] = @ + 1]
    /\ pc' = [pc EXCEPT ![p] = "loop"]
    /\ tries' = [tries EXCEPT ![p] = 0]
    /\ lastErr' = [lastErr EXCEPT ![p] = NoErr]
    /\ data' = [data EXCEPT ![p] = NoFile]
    /\ UNCHANGED <<address_count, shard, skip, ledgerFile, ledger0, files,
                   index, not_valid, start, end, batch, empty, selected,
                   started, completed, recorded>>
    /\ UNCHANGED <<wait, entry, outcome, envVars>>

\* lines 96-97 with an empty self.not_valid: nothing is written
FinishClean(p) ==
    /\ pc[p] = "loop"
    /\ i[p] > address_count
    /\ not_valid[p] = <<>>
    /\ pc' = [pc EXCEPT ![p] = "done"]
    /\ completed' = [completed EXCEPT ![index[p]] = @ + 1]
    /\ UNCHANGED <<address_count, shard, skip, ledgerFile, ledger0, files,
                   procVars, selected, started, recorded, progressTotal>>
    /\ UNCHANGED envVars

\* lines 96-98: the loop is over, not_valid.json is opened for writing
FlushOpen(p) ==
    /\ pc[p] = "loop"
    /\ i[p] > address_count
    /\ not_valid[p] # <<>>
    /\ ledgerFile' = Corrupt
    /\ pc' = [pc EXCEPT ![p] = "flush_dump"]
    /\ UNCHANGED <<address_count, shard, skip, ledger0, files, procVars,
                   selected, started, completed, recorded, progressTotal>>
    /\ UNCHANGED envVars

\* line 99: the list is dumped, download() returns
FlushDump(p) ==
    /\ pc[p] = "flush_dump"
    /\ ledgerFile' \in WriteOver(ledgerFile, DumpLedger(not_valid[p]))
    /\ pc' = [pc EXCEPT ![p] = "done"]
    /\ completed' = [completed EXCEPT ![index[p]] = @ + 1]
    /\ UNCHANGED <<address_count, shard, skip, ledger0, files, procVars,
                   selected, started, recorded, progressTotal>>
    /\ UNCHANGED envVars

\* the process is killed
Kill(p) ==
    /\ pc[p] \notin Stopped
    /\ pc' = [pc EXCEPT ![p] = "killed"]
    /\ UNCHANGED <<address_count, shard, skip, ledgerFile, ledger0, files,
                   procVars, selected, started, completed, recorded,
                   progressTotal>>
    /\ UNCHANGED envVars

Step(p) ==
    \/ LoadFails(p)
    \/ LoadAndPlan(p)
    \/ OutOfRange(p)
    \/ SkipKnown(p)
    \/ BeginKey(p)
    \/ FetchReturns(p)
    \/ FetchRetries(p)
    \/ FetchGivesUp(p)
    \/ HandleData(p)
    \/ ExceptOpen(p)
    \/ ExceptDump(p)
    \/ ExtractFails(p)
    \/ ExtractAndUpdate(p)
    \/ FinishClean(p)
    \/ FlushOpen(p)
    \/ FlushDump(p)

\* invocations that do not overlap, none killed
Next == \E p \in SeqProcs : StartRun(p) \/ Step(p)

Spec == Init /\ [][Next]_vars

\* invocations that do not overlap, each of which may be killed at any point
NextKill == \E p \in SeqProcs : StartRun(p) \/ Step(p) \/ Kill(p)

SpecKill == Init /\ [][NextKill]_vars

\* a single invocation whose --shard, --index and --skip are any integers
InitAnyArgs ==
    /\ InitWith(0..MaxKeys, (0 - 1)..MaxShard, (0 - 1)..MaxSkip)
    /\ fate = [k \in 1..address_count |-> "source"]

NextAnyArgs == \E p \in SeqProcs : StartUnchecked(p) \/ PlanFails(p) \/ Step(p)

SpecAnyArgs == InitAnyArgs /\ [][NextAnyArgs]_vars

\* invocations that do not overlap, on any content of not_valid.json
InitAnyLedger ==
    /\ InitLedger(0..MaxKeys, 1..MaxShard, 0..MaxSkip, {Absent, Corrupt, Object})
    /\ fate = [k \in 1..address_count |-> "source"]

NextAnyLedger == \E p \in SeqProcs : StartRun(p) \/ AppendFails(p) \/ Step(p)

SpecAnyLedger == InitAnyLedger /\ [][NextAnyLedger]_vars

\* two invocations that may overlap, on the same address list and ledger file
InitConc ==
    /\ InitWith({MaxKeys}, {MaxShard}, {0})
    /\ fate = [k \in 1..address_count |-> "source"]

NextConc == \E p \in Procs : StartRun(p) \/ Step(p)

SpecConc == InitConc /\ [][NextConc]_vars

\* the fixed results of a fetch: a source bundle, a source that
\* extract_sol_files cannot walk, or a failure
FixedResults == {"source", "nonobject", Fail}

\* one shard, killed between two keys and run again, with a fetch whose
\* result for each key is fixed and comes at the first call, and an output
\* directory that may hold artifact files of an earlier run
InitRerun ==
    /\ InitStores(0..MaxKeys, 1..MaxShard, 0..MaxSkip, {Absent, Corrupt},
                  {NoFile, "source"})
    /\ fate \in [1..address_count -> FixedResults]

FirstRun(p) == pc[p] = "idle" /\ StartRun(p)

RerunKilled(p) == pc[p] = "killed" /\ StartRun(p) /\ index'[p] = index[p]

KillBetweenKeys(p) == pc[p] = "loop" /\ Kill(p)

FixedFetchReturns(p) ==
    /\ FetchReturns(p)
    /\ data'[p] = fate[KeyAt(i[p])]

FixedFetchGivesUp(p) == FetchGivesUp(p) /\ fate[KeyAt(i[p])] = Fail

NextRerun ==
    \E p \in SeqProcs :
        \/ FirstRun(p)
        \/ RerunKilled(p)
        \/ KillBetweenKeys(p)
        \/ LoadFails(p)
        \/ LoadAndPlan(p)
        \/ OutOfRange(p)
        \/ SkipKnown(p)
        \/ BeginKey(p)
        \/ FixedFetchReturns(p)
        \/ FixedFetchGivesUp(p)
        \/ HandleData(p)
        \/ ExceptOpen(p)
        \/ ExceptDump(p)
        \/ ExtractFails(p)
        \/ ExtractAndUpdate(p)
        \/ FinishClean(p)
        \/ FlushOpen(p)
        \/ FlushDump(p)

SpecRerun == InitRerun /\ [][NextRerun]_vars

\* the shard planner alone: construction, then download() up to the plan
NextPlan == \E p \in SeqProcs : StartRun(p) \/ LoadAndPlan(p)

SpecPlan == InitPlan /\ [][NextPlan]_vars

\* ----------------------------------------------------------------- claims
InRangeLines(p) ==
    {l \in 1..address_count : InRange(l, start[p], end[p])}

AllShardsRanOnce ==
    /\ \A p \in Procs : pc[p] \in Stopped
    /\ \A x \in 0..(shard - 1) : started[x] = 1 /\ completed[x] = 1

\* C1: with skip = 0 and an empty ledger, once download() has run to its end
\* once for each shard index, every line has passed the range check of exactly
\* one shard and the progress bars were advanced address_count times in all.
C1_EveryKeyOneShard ==
    (skip = 0 /\ ledger0 = {} /\ AllShardsRanOnce) =>
        /\ \A l \in 1..address_count : Cardinality(selected[l]) = 1
        /\ progressTotal = address_count

\* C2: download() does not end with an exception at a key whose fetch ended in
\* a terminal failure (the key is then the one just appended to not_valid).
C2_FailureDoesNotAbort ==
    \A p \in Procs :
        ~(/\ pc[p] = "aborted"
          /\ i[p] \in 1..address_count
          /\ KeyAt(i[p]) \in Range(not_valid[p]))

\* C3: the external fetch is called at most 8 times for one key; when every
\* call raised a retried error the exception surfaces after exactly 8 calls,
\* and a call that returns ends the calls for that key.
C3_RetryBound ==
    \A p \in Procs :
        /\ tries[p] <= 8
        /\ (pc[p] = "except" /\ lastErr[p] \in {"EmptyResponse", "ConnectionRefused"})
                => tries[p] = 8
        /\ pc[p] = "got" => tries[p] \in 1..8

C3_Witness ==
    \E p \in Procs :
        pc[p] = "except" /\ lastErr[p] = "ConnectionRefused" /\ tries[p] = 8

C5_LedgerMonotonicHonoured ==
    \A p \in Procs :
        /\ pc[p] = "load" =>
            \A k \in recorded :
                ledgerFile.st = "valid" /\ k \in Range(ledgerFile.keys)
        /\ pc[p] \in {"fetch", "got"} => KeyAt(i[p]) \notin recorded

\* a second invocation has passed over a line in its range whose key an
\* earlier invocation recorded
C5_Witness ==
    \E p \in Procs : \E l \in InRangeLines(p) :
        /\ pc[p] = "loop"
        /\ l < i[p]
        /\ KeyAt(l) \in recorded \ ledger0
        /\ files[KeyAt(l)] = NoFile

\* C6: whenever the loop of a single process is about to look at a line, the
\* ledger file holds exactly self.not_valid (an absent file standing for the
\* empty list).
C6_WriteThrough ==
    \A p \in Procs :
        pc[p] = "loop" =>
            \/ ledgerFile = Valid(not_valid[p])
            \/ ledgerFile = Absent /\ not_valid[p] = <<>>

\* the loop moves on from a key it has just recorded
C6_Witness ==
    \E p \in Procs :
        /\ pc[p] = "loop"
        /\ i[p] >= 2
        /\ not_valid[p] # <<>>
        /\ not_valid[p][Len(not_valid[p])] = KeyAt(i[p] - 1)
        /\ KeyAt(i[p] - 1) \notin ledger0
        /\ files[KeyAt(i[p] - 1)] # NoFile
        /\ ledgerFile = Valid(not_valid[p])

\* C7: a process that is killed while it handles a key, the recording of the
\* key's failure included, leaves a ledger file that a later load can parse
\* and that holds every key whose failure was persisted.
C7_LedgerWriteCrashSafe ==
    \A p \in Procs :
        (pc[p] = "killed" /\ i[p] \in 1..address_count) =>
            /\ ledgerFile.st # "corrupt"
            /\ recorded \subseteq Range(ledgerFile.keys)

\* C8: whenever the loop is about to look at line i, the progress bar has
\* advanced once for every line in range before i, whatever its outcome.
C8_ProgressOncePerKey ==
    \A p \in Procs :
        pc[p] = "loop" =>
            pbar[p] = skip + Cardinality({l \in InRangeLines(p) : l < i[p]})

ShardSize(x) ==
    LET plan == calculate_shard_parameters(address_count, shard, x, skip)
    IN  plan.end - plan.start

RECURSIVE SumSizes(_)
SumSizes(x) == IF x < 0 THEN 0 ELSE ShardSize(x) + SumSizes(x - 1)

\* C9: the plan download() works with is batch = floor(address_count / shard),
\* start = skip + index * batch, end = start + batch, or address_count for the
\* last shard; the sizes end - start of all shards add up to
\* address_count - skip and each shard ends where the next one starts.
C9_ShardPlan ==
    /\ \A p \in Procs :
        pc[p] = "loop" =>
            /\ batch[p] * shard <= address_count
            /\ address_count < (batch[p] + 1) * shard
            /\ start[p] = skip + index[p] * batch[p]
            /\ end[p] = IF index[p] = shard - 1
                        THEN address_count ELSE start[p] + batch[p]
    /\ SumSizes(shard - 1) = address_count - skip
    /\ \A x \in 0..(shard - 2) :
        calculate_shard_parameters(address_count, shard, x, skip).end
            = calculate_shard_parameters(address_count, shard, x + 1, skip).start

\* the last of several shards, taking a remainder
C9_Witness ==
    \E p \in Procs :
        /\ pc[p] = "loop"
        /\ shard >= 2
        /\ index[p] = shard - 1
        /\ skip >= 1
        /\ end[p] - start[p] # batch[p]
        /\ address_count % shard # 0

\* C10: handling a returned source that is empty adds one to meta["empty"],
\* writes the artifact file and changes neither self.not_valid nor the ledger
\* file, and does not end download() with an exception; handling a non-empty
\* one leaves meta["empty"] as it is.
C10_EmptyResult ==
    [][\A p \in Procs :
        (pc[p] = "got" /\ pc'[p] # "got") =>
            /\ data[p] = "empty" =>
                /\ empty'[p] = empty[p] + 1
                /\ files'[KeyAt(i[p])] = "empty"
                /\ pc'[p] = "extract"
                /\ ~ExtractRaises(files'[KeyAt(i[p])])
                /\ not_valid' = not_valid
                /\ ledgerFile' = ledgerFile
            /\ data[p] # "empty" => empty'[p] = empty[p]]_vars

C10_Witness ==
    \E p \in Procs :
        /\ pc[p] = "extract"
        /\ data[p] = "empty"
        /\ empty[p] >= 1
        /\ files[KeyAt(i[p])] = "empty"
        /\ KeyAt(i[p]) \notin Range(not_valid[p])

ValidShardSpec(p) ==
    /\ shard >= 1
    /\ 0 <= index[p]
    /\ index[p] < shard
    /\ skip >= 0

\* C11: an invocation whose shard specification violates the preconditions
\* (shard < 1, index < 0, index >= shard or skip < 0) is stopped by an error
\* before any processing: it never calls the fetch for a key, writes no
\* artifact file and leaves the ledger file as it was.
C11_InvalidShardSpecFails ==
    \A p \in Procs :
        (pc[p] # "idle" /\ ~ValidShardSpec(p)) =>
            /\ pc[p] \notin {"fetch", "got", "except", "except_dump", "extract"}
            /\ tries[p] = 0
            /\ files = files0
            /\ ledgerFile.st # "corrupt" => Range(ledgerFile.keys) = ledger0

\* C12: the load of the ledger at the start of a run yields no key when the
\* file is absent and exactly the stored keys when the file holds a valid
\* array; on any other content the run ends in an error at the load, with no
\* key fetched, no artifact written and the ledger file as it was.
C12_LoadLedger ==
    [][\A p \in Procs :
          (pc[p] = "load" /\ pc'[p] # "load") =>
              CASE ledgerFile.st = "absent" ->
                       pc'[p] = "loop" /\ not_valid'[p] = <<>>
                [] ledgerFile.st = "valid" ->
                       pc'[p] = "loop" /\ not_valid'[p] = ledgerFile.keys
                [] OTHER ->
                       /\ pc'[p] = "aborted"
                       /\ tries'[p] = 0
                       /\ files' = files
                       /\ ledgerFile' = ledgerFile]_vars

\* C13: a process reloads the ledger file before it appends a new failure
\* and overwrites the file, so the list it is about to write holds every key
\* that the file held when the process opened it for that write.
C13_WriteKeepsPersistedKeys ==
    [][\A p \in Procs :
          (pc[p] = "except" /\ pc'[p] = "except_dump") =>
              Range(ledgerFile.keys) \subseteq Range(not_valid'[p])]_vars

\* the process has recorded no failure of its own in this run
NoOwnFailure(p) == \A l \in 1..address_count : outcome[p][l] \notin {"failed", "both"}

\* C17: a process that recorded no failure of its own does not change the
\* keys of the ledger file shared with a concurrent process: when it opens
\* the file for the flush at loop exit, the list it is about to write holds
\* every key of the file, so no key that the other process persisted is
\* erased.
C17_NoFailureNoLedgerChange ==
    [][\A p \in Procs :
          (pc[p] = "loop" /\ pc'[p] = "flush_dump" /\ NoOwnFailure(p)) =>
              Range(ledgerFile.keys) \subseteq Range(not_valid[p])]_vars

\* C14: the sleeps between the successive calls of the fetch for one key
\* never decrease: from the second retry on, the sleep before the next call
\* is at least the sleep before the call that has just failed.
C14_DelaysNonDecreasing ==
    [][\A p \in Procs :
          (pc[p] = "fetch" /\ pc'[p] = "fetch" /\ tries[p] >= 1
           /\ tries'[p] = tries[p] + 1) =>
              wait'[p] >= wait[p]]_vars

\* C15: with --shard 1, --skip s and an empty ledger, the first s keys of the
\* address list are left untouched: no fetch is called for them and no
\* artifact file is written for them.
C15_SingleShardSkip ==
    (shard = 1 /\ ledger0 = {} /\ skip <= address_count) =>
        \A l \in 1..address_count :
            l <= skip => (selected[l] = {} /\ files[l] = NoFile)

\* C16: when a run has reached its end, every line of its range has exactly
\* one outcome, and the outcomes agree with the stores. Skipped: exactly the
\* lines whose key was in the ledger file when the run loaded it. Failed: the
\* key is in self.not_valid and in the ledger file and was not in the ledger
\* at the load. Written: the artifact file of the key exists and the key is
\* neither in self.not_valid nor in the ledger file. A line outside the range
\* has no outcome, and its key is in self.not_valid only if it was loaded.
C16_KeyStateMachine ==
    \A p \in Procs :
        pc[p] = "done" =>
            \A l \in 1..address_count :
                IF l \in InRangeLines(p)
                THEN /\ outcome[p][l] \in {"skipped", "failed", "written"}
                     /\ outcome[p][l] = "skipped" <=> KeyAt(l) \in entry[p]
                     /\ outcome[p][l] = "failed" =>
                            /\ KeyAt(l) \in Range(not_valid[p])
                            /\ KeyAt(l) \in Range(ledgerFile.keys)
                     /\ outcome[p][l] = "written" =>
                            /\ files[KeyAt(l)] # NoFile
                            /\ KeyAt(l) \notin Range(not_valid[p])
                            /\ KeyAt(l) \notin Range(ledgerFile.keys)
                ELSE /\ outcome[p][l] = Pending
                     /\ KeyAt(l) \in Range(not_valid[p]) => KeyAt(l) \in entry[p]

\* a finished run in which one key failed and another was written
C16_Witness ==
    \E p \in Procs :
        /\ pc[p] = "done"
        /\ \E l1, l2 \in InRangeLines(p) :
               /\ outcome[p][l1] = "failed"
               /\ outcome[p][l2] = "written"

\* download() of one invocation that is not killed, as a function of the
\* stores it starts from: the loop of lines 84-95 from line l on, with the
\* keys nv of self.not_valid and the artifact files fs
RECURSIVE RunFrom(_, _, _, _, _)
RunFrom(l, s, e, nv, fs) ==
    IF l > address_count
    THEN [st |-> "done", keys |-> nv, files |-> fs]
    ELSE IF ~InRange(l, s, e) \/ KeyAt(l) \in nv
    THEN RunFrom(l + 1, s, e, nv, fs)
    ELSE IF fate[KeyAt(l)] = Fail
    THEN IF ExtractRaises(fs[KeyAt(l)])
         THEN [st |-> "aborted", keys |-> nv \cup {KeyAt(l)}, files |-> fs]
         ELSE RunFrom(l + 1, s, e, nv \cup {KeyAt(l)}, fs)
    ELSE LET fs2 == [fs EXCEPT ![KeyAt(l)] = fate[KeyAt(l)]]
         IN  IF ExtractRaises(fate[KeyAt(l)])
             THEN [st |-> "aborted", keys |-> nv, files |-> fs2]
             ELSE RunFrom(l + 1, s, e, nv, fs2)

\* one uninterrupted run of shard idx on the first stores
UninterruptedRun(idx) ==
    LET plan == calculate_shard_parameters(address_count, shard, idx, skip)
    IN  RunFrom(1, plan.start, plan.end, ledger0, files0)

\* C18: when a shard that was killed between two keys has been run again to
\* its end, the keys of the ledger file and the artifact files are those
\* that one uninterrupted run of the shard leaves; the rerun calls no fetch
\* for a key whose failure is recorded, and it fetches and writes again
\* every other key of its range, written before the kill or not.
C18_KillRerunConverges ==
    \A p \in Procs :
        /\ pc[p] \in {"fetch", "got", "except", "except_dump"} =>
               KeyAt(i[p]) \notin recorded
        /\ pc[p] = "done" =>
               LET r == UninterruptedRun(index[p])
               IN  /\ r.st = "done"
                   /\ files = r.files
                   /\ ledgerFile.st # "corrupt"
                   /\ Range(ledgerFile.keys) = r.keys
                   /\ \A l \in InRangeLines(p) :
                          /\ KeyAt(l) \in entry[p] => outcome[p][l] = "skipped"
                          /\ KeyAt(l) \notin r.keys => outcome[p][l] = "written"

\* the end of a rerun that passed over a key whose failure the killed run
\* had recorded and wrote again a file that the killed run had written
C18_Witness ==
    \E p \in Procs :
        /\ pc[p] = "done"
        /\ started[index[p]] = 2
        /\ progressTotal = 3
        /\ \E l1, l2 \in InRangeLines(p) :
               /\ outcome[p][l1] = "skipped"
               /\ KeyAt(l1) \notin ledger0
               /\ outcome[p][l2] = "written"
====
